---- MODULE Spec2Model ----
(***************************************************************************)
(* A model of padre.c: the account database parser (parse_accounts with    *)
(* its account list), the charset compiler (enumerate_charset, push_char), *)
(* the salt construction of derive_password and the byte-to-character      *)
(* mapping to_chars.                                                       *)
(*                                                                         *)
(* Characters are C char values       written as integers (ASCII codes).       *)
(* Pointers into a buffer are 1-based positions; the null pointer is 0.    *)
(***************************************************************************)
EXTENDS Integers, Sequences, FiniteSets, TLC

VARIABLES
  buf0,      \* parse_accounts: the database buffer as handed in [begin, end)
  buf,       \* parse_accounts: the buffer as mutated in place
  str,       \* parse_accounts: the scan pointer of the for loop
  cur,       \* parse_accounts: start of the field being scanned
  account,   \* parse_accounts: the record being assembled
  list,      \* parse_accounts: the account list
  diags,     \* parse_accounts: the diagnostics written to stderr, in order
  lineno,    \* parse_accounts: 1-based line of buf0 that str is in (observer)
  ppc,       \* parse_accounts: "start", "loop", "returned"
  spec0,     \* enumerate_charset: the spec argument as passed
  spec,      \* enumerate_charset: the string spec points into after the aliases
  sp,        \* enumerate_charset: position of spec in that string
  chars,     \* enumerate_charset: the bytes written to char chars[95], in order
  result,    \* enumerate_charset: the write pointer into chars, or nullptr
  l,         \* enumerate_charset: left side of a character range
  op,        \* enumerate_charset: operator found
  ret,       \* enumerate_charset: the value returned
  errno,     \* enumerate_charset: the error reported
  res,       \* enumerate_charset: *res, the alphabet handed back
  rlen,      \* enumerate_charset: *rlen
  copy,      \* enumerate_charset: bytes allocated for *res and bytes copied to it
  epc,       \* enumerate_charset: "idle", "start", "scan", "returned"
  master_password, \* derive_password: the master password
  domain,    \* derive_password: the domain string
  username,  \* derive_password: the username string
  passno,    \* derive_password: the iteration string
  buf_len,   \* derive_password: the number of bytes asked for
  salt,      \* derive_password: the bytes of the salt allocation
  kdf,       \* derive_password: the arguments crypto_scrypt was called with
  key,       \* derive_password, to_chars: the bytes of buf
  password,  \* to_chars: what the call left in buf
  dpc,       \* "idle", "start", "salted", "derived", "mapped", "trapped",
             \* "failed"
  run,       \* the number of the derivation: 1, or 2 when it is repeated
  first,     \* what the first derivation ended with
  memo       \* the call of crypto_scrypt in the first derivation

pvars == <<buf0, buf, str, cur, account, list, diags, lineno, ppc>>
evars == <<spec0, spec, sp, chars, result, l, op, ret, errno, res, rlen, copy, epc>>
dvars == <<master_password, domain, username, passno, buf_len, salt, kdf, key,
           password, dpc>>
rvars == <<run, first, memo>>
vars == <<pvars, evars, dvars, rvars>>

(***************************************************************************)
(* Characters                                                              *)
(***************************************************************************)
\* The printable ASCII characters, code 32 (space) first.
ASCII ==
  << " ", "!", "dquote", "#", "$", "%", "&", "'", "(", ")", "*", "+", ",", "-",
     ".", "/", "0", "1", "2", "3", "4", "5", "6", "7", "8", "9", ":", ";",
     "<", "=", ">", "?", "@", "A", "B", "C", "D", "E", "F", "G", "H", "I",
     "J", "K", "L", "M", "N", "O", "P", "Q", "R", "S", "T", "U", "V", "W",
     "X", "Y", "Z", "[", "backslash", "]", "^", "_", "backtick", "a", "b", "c", "d", "e",
     "f", "g", "h", "i", "j", "k", "l", "m", "n", "o", "p", "q", "r", "s",
     "t", "u", "v", "w", "x", "y", "z", "{", "|", "}", "~" >>

\* The code of a character written as a one-character string.
Ord(ch) == IF ch = "\n" THEN 10 ELSE 31 + (CHOOSE i \in 1..Len(ASCII) : ASCII[i] = ch)

\* A C string literal, written as a tuple of one-character strings.
Lit(t) == [i \in 1..Len(t) |-> Ord(t[i])]

NUL     == Ord(" ") - 32
NEWLINE == Ord("\n")
COMMA   == Ord(",")
MINUS   == Ord("-")
PLUS    == Ord("+")

NULL == NUL   \* nullptr, as a position

(***************************************************************************)
(* libc                                                                    *)
(***************************************************************************)
isspace(c) == c \in {Ord(" "), 9, 10, 11, 12, 13}
isdigit(c) == c \in Ord("0")..Ord("9")

\* The C string at position p of buffer b: the bytes up to the first NUL.
\* A string with no NUL before the end of b runs to the end of b.
CStrFrom(b, p) ==
  LET nuls == { i \in p..Len(b) : b[i] = NUL }
      stop == IF nuls = {} THEN Len(b) + 1
              ELSE CHOOSE i \in nuls : \A j \in nuls : i <= j
  IN  SubSeq(b, p, stop - 1)

strlen(b, p) == Len(CStrFrom(b, p))

RECURSIVE AtoiDigits(_, _, _)
AtoiDigits(s, i, acc) ==
  IF i > Len(s) \/ ~isdigit(s[i]) THEN acc
  ELSE AtoiDigits(s, i + 1, acc * 10 + (s[i] - Ord("0")))

RECURSIVE AtoiSkip(_, _)
AtoiSkip(s, i) == IF i <= Len(s) /\ isspace(s[i]) THEN AtoiSkip(s, i + 1) ELSE i

\* atoi: leading white space, an optional sign, then the longest run of digits;
\* anything after the digits is ignored, no digits at all gives 0.
atoi(s) ==
  LET i == AtoiSkip(s, 1)
  IN  IF i <= Len(s) /\ s[i] = MINUS THEN 0 - AtoiDigits(s, i + 1, 0)
      ELSE IF i <= Len(s) /\ s[i] = PLUS THEN AtoiDigits(s, i + 1, 0)
      ELSE AtoiDigits(s, i, 0)

(***************************************************************************)
(* struct account, struct account_list                                     *)
(***************************************************************************)
\* Stands for the value of AVERAGE_DATABASE_ENTRY_SIZE, which padre.h sets.
AVERAGE_DATABASE_ENTRY_SIZE == 8

\* (struct account){nullptr, nullptr, nullptr, nullptr, 0}
NullAccount ==
  [domain |-> NULL, username |-> NULL, iteration |-> NULL,
   characters |-> NULL, length |-> 0]

new_account_list(initial_capacity) ==
  [accounts |-> << >>, size |-> 0, capacity |-> initial_capacity]

\* A free_account_list that resets the size and keeps the rest.
free_account_list_keeps(lst) == [lst EXCEPT !.size = 0]

\* free_account_list leaves (struct account_list){nullptr, 0, 0}
free_account_list(lst) == [accounts |-> << >>, size |-> 0, capacity |-> 0]

\* A push_account that never grows the list.
push_account_without_growth(lst, a) ==
  [accounts |-> Append(lst.accounts, a),
   size     |-> lst.size + 1,
   capacity |-> lst.capacity]

\* push_account: doubles the capacity when the list is full, then stores the
\* record at index size.
push_account(lst, a) ==
  [accounts |-> Append(lst.accounts, a),
   size     |-> lst.size + 1,
   capacity |-> IF lst.size = lst.capacity THEN lst.capacity * 2 ELSE lst.capacity]

(***************************************************************************)
(* The database buffers the parser is run on                               *)
(***************************************************************************)
MaxLines == 2

Join2(a, b) == a \o << COMMA >> \o b

\* Lines with fewer than four commas.
ShortLines ==
  { << >>,
    Lit(<<"a">>),
    Lit(<<"a", ",", "b">>),
    Lit(<<"a", ",", "b", ",">>),
    Lit(<<"a", ",", "b", ",", "1", ",", "2">>) }

DomainUser == { Lit(<<"a", ",", "b">>), Lit(<<",">>) }
LengthTokens ==
  { Lit(<<"1", "2">>), Lit(<<"0">>), Lit(<<"-", "3">>), Lit(<<"2", "a">>),
    Lit(<<"x">>) }
CharsetTexts == { << >>, Lit(<<"a", ",", "c">>), Lit(<<"7">>) }

Line(du, i, t, r) == Join2(Join2(Join2(du, i), t), r)

\* Lines with at least four commas: domain,username,iteration,length,characters.
\* Every length token with two of the texts, every text and every
\* domain,username pair with the length 12.
FullLines ==
  { Line(Lit(<<"a", ",", "b">>), Lit(<<"1">>), t, r) :
      t \in LengthTokens, r \in { << >>, Lit(<<"7">>) } }
  \cup
  { Line(du, Lit(<<"1">>), Lit(<<"1", "2">>), r) :
      du \in DomainUser, r \in CharsetTexts }

Lines == ShortLines \cup FullLines

RECURSIVE Buffers(_)
\* The buffers of at most n lines in which every line ends with a newline.
Buffers(n) ==
  IF n = 0 THEN { << >> }
  ELSE LET shorter == Buffers(n - 1)
       IN  shorter \cup { b \o ln \o << NEWLINE >> : b \in shorter, ln \in Lines }

\* The examples the specification gives.
ExampleSpecThenLength ==
  Lit(<<"e","x","a","m","p","l","e",".","c","o","m",",","a","l","i","c","e",",",
        "1",",",":","a","l","n","u","m",":",",","1","2","\n">>)
ExampleLengthThenSpec ==
  Lit(<<"e","x","a","m","p","l","e",".","c","o","m",",","a","l","i","c","e",",",
        "1",",","1","2",",",":","a","l","n","u","m",":","\n">>)
GoodLine == Lit(<<"a",",","b",",","1",",","2",",","x","\n">>)
ExamplePartialLoad ==
  GoodLine \o Lit(<<"a","\n">>) \o GoodLine \o GoodLine \o GoodLine
ExampleFatalLength ==
  GoodLine \o Lit(<<"a",",","b",",","1",",","-","3",",","x","\n">>) \o GoodLine

Examples ==
  { ExampleSpecThenLength, ExampleLengthThenSpec, ExamplePartialLoad,
    ExampleFatalLength }

\* Every buffer of at most MaxLines lines, the last line with or without its
\* newline, and the examples.
Databases ==
  Buffers(MaxLines)
    \cup { b \o ln : b \in Buffers(MaxLines - 1), ln \in Lines }
    \cup Examples

(***************************************************************************)
(* enumerate_charset: state before a call                                  *)
(***************************************************************************)
NoAlphabet == [set |-> FALSE, bytes |-> << >>]
NoCopy == [allocated |-> 0, copied |-> 0]

EnumIdle ==
  /\ spec0 = << >> /\ spec = << >> /\ sp = 0
  /\ chars = << >> /\ result = NULL /\ l = NUL /\ op = 0
  /\ ret = 0 /\ errno = "none" /\ res = NoAlphabet /\ rlen = 0
  /\ copy = NoCopy
  /\ epc = "idle"

(***************************************************************************)
(* derive_password, to_chars: state before a call                          *)
(***************************************************************************)
NoCall == [called |-> FALSE, passwd |-> << >>, passwdlen |-> 0, salt |-> << >>,
           saltlen |-> 0, buflen |-> 0, out |-> << >>]
NoPassword == [defined |-> FALSE, text |-> << >>]

DeriveUnset ==
  /\ salt = << >> /\ kdf = NoCall /\ key = << >> /\ password = NoPassword

DeriveIdle ==
  /\ master_password = << >> /\ domain = << >> /\ username = << >>
  /\ passno = << >> /\ buf_len = 0
  /\ DeriveUnset
  /\ dpc = "idle"

\* A first derivation: nothing is left of an earlier one.
NoOutcome == [done |-> FALSE, password |-> NoPassword]
OneRun == run = 1 /\ first = NoOutcome /\ memo = NoCall

(***************************************************************************)
(* parse_accounts                                                          *)
(***************************************************************************)
begin == 1
end   == Len(buf) + 1

ParseInit ==
  /\ buf0 \in Databases
  /\ buf = buf0
  /\ str = NULL
  /\ cur = NULL
  /\ account = NullAccount
  /\ list = new_account_list(0)
  /\ diags = << >>
  /\ lineno = 1
  /\ ppc = "start"
  /\ EnumIdle
  /\ DeriveIdle
  /\ OneRun

\* new_account_list(...), cur = begin, account = {null...}, str = begin
ParseStart ==
  /\ ppc = "start"
  /\ list' = new_account_list(
               IF end - begin < AVERAGE_DATABASE_ENTRY_SIZE
               THEN 1
               ELSE (end - begin) \div AVERAGE_DATABASE_ENTRY_SIZE)
  /\ cur' = begin
  /\ account' = NullAccount
  /\ str' = begin
  /\ ppc' = "loop"
  /\ UNCHANGED <<buf0, buf, diags, lineno>>
  /\ UNCHANGED <<evars, dvars, rvars>>

\* buf with *str = '\0'
Terminated == [buf EXCEPT ![str] = NUL]

\* case '\n'
ParseNewline ==
  /\ ppc = "loop" /\ str # end /\ buf[str] = NEWLINE
  /\ buf' = Terminated
  /\ LET acc == [account EXCEPT !.characters = cur]
     IN  IF acc.domain = NULL \/ acc.username = NULL
         THEN /\ diags' = Append(diags, [kind |-> "skip", line |-> list.size + 1,
                                         at |-> lineno])
              /\ list' = list
         ELSE /\ list' = push_account(list, acc)
              /\ diags' = diags
  /\ account' = NullAccount
  /\ cur' = str + 1
  /\ str' = str + 1
  /\ lineno' = lineno + 1
  /\ UNCHANGED <<buf0, ppc>>
  /\ UNCHANGED <<evars, dvars, rvars>>

\* case ',' with account.domain == nullptr
ParseCommaDomain ==
  /\ ppc = "loop" /\ str # end /\ buf[str] = COMMA
  /\ account.domain = NULL
  /\ buf' = Terminated
  /\ account' = [account EXCEPT !.domain = cur]
  /\ cur' = str + 1
  /\ str' = str + 1
  /\ UNCHANGED <<buf0, list, diags, lineno, ppc>>
  /\ UNCHANGED <<evars, dvars, rvars>>

\* case ',' with account.username == nullptr
ParseCommaUsername ==
  /\ ppc = "loop" /\ str # end /\ buf[str] = COMMA
  /\ account.domain # NULL /\ account.username = NULL
  /\ buf' = Terminated
  /\ account' = [account EXCEPT !.username = cur]
  /\ cur' = str + 1
  /\ str' = str + 1
  /\ UNCHANGED <<buf0, list, diags, lineno, ppc>>
  /\ UNCHANGED <<evars, dvars, rvars>>

\* case ',' with account.iteration == nullptr
ParseCommaIteration ==
  /\ ppc = "loop" /\ str # end /\ buf[str] = COMMA
  /\ account.domain # NULL /\ account.username # NULL
  /\ account.iteration = NULL
  /\ buf' = Terminated
  /\ account' = [account EXCEPT !.iteration = cur]
  /\ cur' = str + 1
  /\ str' = str + 1
  /\ UNCHANGED <<buf0, list, diags, lineno, ppc>>
  /\ UNCHANGED <<evars, dvars, rvars>>

\* The fatal test on the length token: tmp == 0 || tmp < 0
LengthIsFatal(tmp) == tmp = 0 \/ tmp < 0

\* ParseCommaLength with cur = str in place of cur = str + 1.
ParseCommaLength_cur_at_comma ==
  /\ ppc = "loop" /\ str # end /\ buf[str] = COMMA
  /\ account.domain # NULL /\ account.username # NULL
  /\ account.iteration # NULL /\ account.length = 0
  /\ ~LengthIsFatal(atoi(CStrFrom(Terminated, cur)))
  /\ buf' = buf
  /\ account' = [account EXCEPT !.length = atoi(CStrFrom(Terminated, cur))]
  /\ cur' = str
  /\ str' = str + 1
  /\ UNCHANGED <<buf0, list, diags, lineno, ppc>>
  /\ UNCHANGED <<evars, dvars, rvars>>

\* case ',' with account.length == 0: the length token is accepted
ParseCommaLength ==
  /\ ppc = "loop" /\ str # end /\ buf[str] = COMMA
  /\ account.domain # NULL /\ account.username # NULL
  /\ account.iteration # NULL /\ account.length = 0
  /\ ~LengthIsFatal(atoi(CStrFrom(Terminated, cur)))
  /\ buf' = Terminated
  /\ account' = [account EXCEPT !.length = atoi(CStrFrom(Terminated, cur))]
  /\ cur' = str + 1
  /\ str' = str + 1
  /\ UNCHANGED <<buf0, list, diags, lineno, ppc>>
  /\ UNCHANGED <<evars, dvars, rvars>>

\* case ',' with account.length == 0: the length token is zero or negative,
\* the list is freed and returned
ParseCommaLengthFatal ==
  /\ ppc = "loop" /\ str # end /\ buf[str] = COMMA
  /\ account.domain # NULL /\ account.username # NULL
  /\ account.iteration # NULL /\ account.length = 0
  /\ LengthIsFatal(atoi(CStrFrom(Terminated, cur)))
  /\ buf' = Terminated
  /\ diags' = Append(diags, [kind |-> "length", line |-> list.size + 1,
                             at |-> lineno])
  /\ list' = free_account_list(list)
  /\ ppc' = "returned"
  /\ UNCHANGED <<buf0, str, cur, account, lineno>>
  /\ UNCHANGED <<evars, dvars, rvars>>

\* ParseCommaPattern that terminates the field at the comma like the cases before it.
ParseCommaPattern_terminates ==
  /\ ppc = "loop" /\ str # end /\ buf[str] = COMMA
  /\ account.domain # NULL /\ account.username # NULL
  /\ account.iteration # NULL /\ account.length # 0
  /\ buf' = Terminated
  /\ str' = str + 1
  /\ UNCHANGED <<buf0, cur, account, list, diags, lineno, ppc>>
  /\ UNCHANGED <<evars, dvars, rvars>>

\* case ',' once the length is set: the comma is part of the pattern
ParseCommaPattern ==
  /\ ppc = "loop" /\ str # end /\ buf[str] = COMMA
  /\ account.domain # NULL /\ account.username # NULL
  /\ account.iteration # NULL /\ account.length # 0
  /\ str' = str + 1
  /\ UNCHANGED <<buf0, buf, cur, account, list, diags, lineno, ppc>>
  /\ UNCHANGED <<evars, dvars, rvars>>

\* default
ParseDefault ==
  /\ ppc = "loop" /\ str # end /\ buf[str] \notin {NEWLINE, COMMA}
  /\ str' = str + 1
  /\ UNCHANGED <<buf0, buf, cur, account, list, diags, lineno, ppc>>
  /\ UNCHANGED <<evars, dvars, rvars>>

\* after the loop: if (cur < end) push the pending record; return list
ParseEnd ==
  /\ ppc = "loop" /\ str = end
  /\ IF cur < end
     THEN /\ account' = [account EXCEPT !.characters = cur]
          /\ list' = push_account(list, [account EXCEPT !.characters = cur])
     ELSE UNCHANGED <<account, list>>
  /\ ppc' = "returned"
  /\ UNCHANGED <<buf0, buf, str, cur, diags, lineno>>
  /\ UNCHANGED <<evars, dvars, rvars>>

ParseNext ==
  \/ ParseStart
  \/ ParseNewline
  \/ ParseCommaDomain
  \/ ParseCommaUsername
  \/ ParseCommaIteration
  \/ ParseCommaLength
  \/ ParseCommaLengthFatal
  \/ ParseCommaPattern
  \/ ParseDefault
  \/ ParseEnd

SpecParse == ParseInit /\ [][ParseNext]_vars

(***************************************************************************)
(* enumerate_charset, push_char                                            *)
(***************************************************************************)
\* char chars[95]
CHARS_SIZE == 95

\* const char *end = chars + 95, with chars at position 1
chars_end_without_terminator_slot == CHARS_SIZE
chars_end == 1 + CHARS_SIZE

\* s with byte c stored at position p; the positions are written in order.
Store(s, p, c) == IF p = Len(s) + 1 THEN Append(s, c) ELSE [s EXCEPT ![p] = c]

\* A push_char that leaves the pointer where it is when the buffer is full.
push_char_drops(st, c) ==
  IF st.result # NULL /\ st.result < chars_end
  THEN [chars |-> Store(st.chars, st.result, c), result |-> st.result + 1]
  ELSE st

\* push_char on st = [chars, result]: stores c at result and returns result + 1
\* while result is not null and below end, returns nullptr otherwise.
push_char(st, c) ==
  IF st.result # NULL /\ st.result < chars_end
  THEN [chars |-> Store(st.chars, st.result, c), result |-> st.result + 1]
  ELSE [chars |-> st.chars, result |-> NULL]

\* The string literals of the alias table.
GraphLiteral  == Lit(<<"!", "-", "~">>)
AlnumLiteral  == Lit(<<"a", "-", "z", "A", "-", "Z", "0", "-", "9">>)
AlphaLiteral  == Lit(<<"a", "-", "z", "A", "-", "Z">>)
DigitLiteral  == Lit(<<"0", "-", "9">>)
LowerLiteral  == Lit(<<"a", "-", "z">>)
PunctLiteral  ==
  Lit(<<"!", "-", "/", ":", "-", "@", "[", "-", "backtick", "{", "-", "~">>)
UpperLiteral  == Lit(<<"A", "-", "Z">>)
WordLiteral   == Lit(<<"A", "-", "Z", "a", "-", "z", "0", "-", "9", "_">>)
XdigitLiteral == Lit(<<"A", "-", "F", "a", "-", "f", "0", "-", "9">>)
\* "!-~" followed by the UTF-8 bytes of the seven non-ASCII characters, as
\* signed char values.
StarLiteral ==
  GraphLiteral \o << -61, -74, -61, -92, -61, -68, -62, -75, -30, -126, -84,
                     -62, -89, -62, -80 >>

Empty  == << >>
Star   == Lit(<<"*">>)
Graph  == Lit(<<":", "g", "r", "a", "p", "h", ":">>)
Alnum  == Lit(<<":", "a", "l", "n", "u", "m", ":">>)
Alpha  == Lit(<<":", "a", "l", "p", "h", "a", ":">>)
Digit  == Lit(<<":", "d", "i", "g", "i", "t", ":">>)
Lower  == Lit(<<":", "l", "o", "w", "e", "r", ":">>)
Punct  == Lit(<<":", "p", "u", "n", "c", "t", ":">>)
Upper  == Lit(<<":", "u", "p", "p", "e", "r", ":">>)
Word   == Lit(<<":", "w", "o", "r", "d", ":">>)
Xdigit == Lit(<<":", "x", "d", "i", "g", "i", "t", ":">>)

\* The alias chain with :word: resolved without the underscore.
Resolve_word_without_underscore(s) ==
  IF s = Empty \/ s = Graph \/ s = Star THEN GraphLiteral
  ELSE IF s = Alnum THEN AlnumLiteral
  ELSE IF s = Alpha THEN AlphaLiteral
  ELSE IF s = Digit THEN DigitLiteral
  ELSE IF s = Lower THEN LowerLiteral
  ELSE IF s = Punct THEN PunctLiteral
  ELSE IF s = Upper THEN UpperLiteral
  ELSE IF s = Word THEN SubSeq(WordLiteral, 1, Len(WordLiteral) - 1)
  ELSE IF s = Xdigit THEN XdigitLiteral
  ELSE IF s = Star THEN StarLiteral
  ELSE s

\* The chain of strcmp tests that resolves the character classes.
Resolve(s) ==
  IF s = Empty \/ s = Graph \/ s = Star THEN GraphLiteral
  ELSE IF s = Alnum THEN AlnumLiteral
  ELSE IF s = Alpha THEN AlphaLiteral
  ELSE IF s = Digit THEN DigitLiteral
  ELSE IF s = Lower THEN LowerLiteral
  ELSE IF s = Punct THEN PunctLiteral
  ELSE IF s = Upper THEN UpperLiteral
  ELSE IF s = Word THEN WordLiteral
  ELSE IF s = Xdigit THEN XdigitLiteral
  ELSE IF s = Star THEN StarLiteral
  ELSE s

\* The null pointer passed for spec: no C string holds a NUL.
NullSpec == << NULL >>

\* The specs the compiler is run on: every string of at most MaxSpecLen of
\* these characters, the aliases and their literals, specs that expand past
\* the buffer, and the null pointer.
MaxSpecLen == 4
SpecChars == { Ord("!"), Ord("~"), Ord("-"), Ord("a"), Ord("c"), Ord(" ") }
ShortSpecs == UNION { [1..n -> SpecChars] : n \in 0..MaxSpecLen }
Aliases == { Star, Graph, Alnum, Alpha, Digit, Lower, Punct, Upper, Word, Xdigit }
Literals ==
  { GraphLiteral, AlnumLiteral, AlphaLiteral, DigitLiteral, LowerLiteral,
    PunctLiteral, UpperLiteral, WordLiteral, XdigitLiteral }
OverflowSpecs ==
  { GraphLiteral \o GraphLiteral,
    GraphLiteral \o LowerLiteral,
    GraphLiteral \o Lit(<<"a">>),
    GraphLiteral \o Lit(<<"a", "b">>),
    GraphLiteral \o Lit(<<"a", "-">>),
    Lit(<<"a", "a">>) \o GraphLiteral,
    GraphLiteral \o Lit(<<" ">>) \o GraphLiteral }
Specs == ShortSpecs \cup Aliases \cup Literals \cup OverflowSpecs \cup { NullSpec }

ParseIdle ==
  /\ buf0 = << >> /\ buf = << >> /\ str = NULL /\ cur = NULL
  /\ account = NullAccount /\ list = new_account_list(0)
  /\ diags = << >> /\ lineno = 1 /\ ppc = "idle"

EnumInit ==
  /\ spec0 \in Specs
  /\ spec = << >> /\ sp = 0
  /\ chars = << >> /\ result = NULL /\ l = NUL /\ op = 0
  /\ ret = 0 /\ errno = "none" /\ res = NoAlphabet /\ rlen = 0
  /\ copy = NoCopy
  /\ epc = "start"
  /\ ParseIdle
  /\ DeriveIdle
  /\ OneRun

\* if (spec == nullptr || res == nullptr || rlen == nullptr)
EnumNullArgument ==
  /\ epc = "start" /\ spec0 = NullSpec
  /\ errno' = "EINVAL"
  /\ ret' = -1
  /\ epc' = "returned"
  /\ UNCHANGED <<spec0, spec, sp, chars, result, l, op, res, rlen, copy>>
  /\ UNCHANGED <<pvars, dvars, rvars>>

\* The character classes are resolved; result = chars, l = '\0', op = 0.
EnumResolve ==
  /\ epc = "start" /\ spec0 # NullSpec
  /\ spec' = Resolve(spec0)
  /\ sp' = 1
  /\ chars' = << >>
  /\ result' = 1
  /\ l' = NUL
  /\ op' = 0
  /\ epc' = "scan"
  /\ UNCHANGED <<spec0, ret, errno, res, rlen, copy>>
  /\ UNCHANGED <<pvars, dvars, rvars>>

\* *spec != '\0', and c = *spec
InLoop == epc = "scan" /\ sp <= Len(spec)
c == spec[sp]
here == [chars |-> chars, result |-> result]

\* if (isspace(c)) continue;  -- spec is not advanced
ScanSpace ==
  /\ InLoop /\ isspace(c)
  /\ UNCHANGED evars
  /\ UNCHANGED <<pvars, dvars, rvars>>

\* l == '\0' && c == '-'
ScanDash ==
  /\ InLoop /\ ~isspace(c)
  /\ l = NUL /\ c = MINUS
  /\ chars' = push_char(here, c).chars
  /\ result' = push_char(here, c).result
  /\ sp' = sp + 1
  /\ UNCHANGED <<spec0, spec, l, op, ret, errno, res, rlen, copy, epc>>
  /\ UNCHANGED <<pvars, dvars, rvars>>

\* l == '\0' && c != '-'
ScanLeft ==
  /\ InLoop /\ ~isspace(c)
  /\ l = NUL /\ c # MINUS
  /\ l' = c
  /\ sp' = sp + 1
  /\ UNCHANGED <<spec0, spec, chars, result, op, ret, errno, res, rlen, copy, epc>>
  /\ UNCHANGED <<pvars, dvars, rvars>>

\* l != '\0' && c == '-'
ScanOperator ==
  /\ InLoop /\ ~isspace(c)
  /\ l # NUL /\ c = MINUS
  /\ op' = 1
  /\ sp' = sp + 1
  /\ UNCHANGED <<spec0, spec, chars, result, l, ret, errno, res, rlen, copy, epc>>
  /\ UNCHANGED <<pvars, dvars, rvars>>

\* l != '\0' && c != '-' && op == 1: one turn of for (; l <= c; l++)
ScanRangePush ==
  /\ InLoop /\ ~isspace(c)
  /\ l # NUL /\ c # MINUS /\ op = 1
  /\ l <= c
  /\ chars' = push_char(here, l).chars
  /\ result' = push_char(here, l).result
  /\ l' = l + 1
  /\ UNCHANGED <<spec0, spec, sp, op, ret, errno, res, rlen, copy, epc>>
  /\ UNCHANGED <<pvars, dvars, rvars>>

\* l != '\0' && c != '-' && op == 1: the for loop is left, op = 0, l = '\0'
ScanRangeEnd ==
  /\ InLoop /\ ~isspace(c)
  /\ l # NUL /\ c # MINUS /\ op = 1
  /\ ~(l <= c)
  /\ op' = 0
  /\ l' = NUL
  /\ sp' = sp + 1
  /\ UNCHANGED <<spec0, spec, chars, result, ret, errno, res, rlen, copy, epc>>
  /\ UNCHANGED <<pvars, dvars, rvars>>

\* l != '\0' && c != '-' && op == 0
ScanLiteral ==
  /\ InLoop /\ ~isspace(c)
  /\ l # NUL /\ c # MINUS /\ op = 0
  /\ chars' = push_char(here, l).chars
  /\ result' = push_char(here, l).result
  /\ l' = c
  /\ sp' = sp + 1
  /\ UNCHANGED <<spec0, spec, op, ret, errno, res, rlen, copy, epc>>
  /\ UNCHANGED <<pvars, dvars, rvars>>

\* The flush without the push of the pending '-'.
Flushed_without_trailing_dash ==
  LET a == IF l # NUL THEN push_char(here, l) ELSE here
  IN  push_char(a, NUL)

\* After the loop: the pending l, the pending '-', then the terminator.
Flushed ==
  LET a == IF l # NUL THEN push_char(here, l) ELSE here
      b == IF op = 1 THEN push_char(a, MINUS) ELSE a
  IN  push_char(b, NUL)

AfterLoop == epc = "scan" /\ sp > Len(spec)

\* if (result == nullptr) { errno = EINVAL; return -1; }
EnumOverflow ==
  /\ AfterLoop /\ Flushed.result = NULL
  /\ chars' = Flushed.chars
  /\ result' = NULL
  /\ errno' = "EINVAL"
  /\ ret' = -1
  /\ epc' = "returned"
  /\ UNCHANGED <<spec0, spec, sp, l, op, res, rlen, copy>>
  /\ UNCHANGED <<pvars, dvars, rvars>>

\* *rlen = strlen(chars); *res = malloc(*rlen) fails; return -1
EnumMallocFails ==
  /\ AfterLoop /\ Flushed.result # NULL
  /\ chars' = Flushed.chars
  /\ result' = Flushed.result
  /\ rlen' = strlen(Flushed.chars, 1)
  /\ errno' = "ENOMEM"
  /\ ret' = -1
  /\ epc' = "returned"
  /\ UNCHANGED <<spec0, spec, sp, l, op, res, copy>>
  /\ UNCHANGED <<pvars, dvars, rvars>>

\* *rlen = strlen(chars); *res = malloc(*rlen); memcpy(*res, chars, *rlen + 1);
\* return 0.  The alphabet is the *rlen bytes that fit the allocation.
EnumCopy ==
  /\ AfterLoop /\ Flushed.result # NULL
  /\ chars' = Flushed.chars
  /\ result' = Flushed.result
  /\ rlen' = strlen(Flushed.chars, 1)
  /\ copy' = [allocated |-> strlen(Flushed.chars, 1),
              copied    |-> strlen(Flushed.chars, 1) + 1]
  /\ res' = [set |-> TRUE,
             bytes |-> SubSeq(Flushed.chars, 1, strlen(Flushed.chars, 1))]
  /\ ret' = 0
  /\ epc' = "returned"
  /\ UNCHANGED <<spec0, spec, sp, l, op, errno>>
  /\ UNCHANGED <<pvars, dvars, rvars>>

EnumNext ==
  \/ EnumNullArgument
  \/ EnumResolve
  \/ ScanSpace
  \/ ScanDash
  \/ ScanLeft
  \/ ScanOperator
  \/ ScanRangePush
  \/ ScanRangeEnd
  \/ ScanLiteral
  \/ EnumOverflow
  \/ EnumMallocFails
  \/ EnumCopy

SpecCharset == EnumInit /\ [][EnumNext]_vars

(***************************************************************************)
(* derive_password, to_chars                                               *)
(***************************************************************************)
\* memcpy(dst, src, n): the n bytes of src stored from position at of b.
memcpy(b, at, src) ==
  [i \in 1..Len(b) |->
     IF i >= at /\ i < at + Len(src) THEN src[i - at + 1] ELSE b[i]]

\* The strlen(s) + 1 bytes of the C string s.
WithTerminator(s) == Append(s, NUL)

\* What malloc(n) may hand out: n bytes of any content, here all zero or all
\* 'U'.
Allocations(n) == { [i \in 1..n |-> NUL], [i \in 1..n |-> Ord("U")] }

\* The three copies with the username copied before the domain.
build_salt_username_first(fresh, d, u, p) ==
  LET s1 == memcpy(fresh, 1, WithTerminator(u))
      s2 == memcpy(s1, 1 + strlen(s1, 1), WithTerminator(d))
      s3 == memcpy(s2, 1 + strlen(s2, 1), WithTerminator(p))
  IN  s3

\* memcpy(salt, domain, strlen(domain) + 1);
\* memcpy(salt + strlen(salt), username, strlen(username) + 1);
\* memcpy(salt + strlen(salt), passno, strlen(passno) + 1);
build_salt(fresh, d, u, p) ==
  LET s1 == memcpy(fresh, 1, WithTerminator(d))
      s2 == memcpy(s1, 1 + strlen(s1, 1), WithTerminator(u))
      s3 == memcpy(s2, 1 + strlen(s2, 1), WithTerminator(p))
  IN  s3

\* salt_len = strlen(domain) + strlen(username) + strlen(passno)
salt_len == Len(domain) + Len(username) + Len(passno)

\* The bytes crypto_scrypt may leave in a buffer of n bytes.
ByteValues == { 0, 1, 95, 255 }
KeyBytes(n) == [1..n -> ByteValues]

\* for (; len > 0; --len) { *str = chars[*bytes % (int)clen]; ++bytes; }
\* *bytes = 0: every one of the len bytes is replaced in place, then the
\* terminator is stored behind them.
to_chars(bytes, len, chrs, clen) ==
  Store([i \in 1..Len(bytes) |->
           IF i <= len THEN chrs[(bytes[i] % clen) + 1] ELSE bytes[i]],
        len + 1, NUL)

\* The caller derives a password once the alphabet has been compiled.
CallsDerive == epc = "returned" /\ ret = 0

\* salt = malloc(salt_len + 1) and the three copies
DeriveSalt ==
  /\ dpc = "start" /\ CallsDerive
  /\ \E fresh \in Allocations(salt_len + 1) :
       salt' = build_salt(fresh, domain, username, passno)
  /\ dpc' = "salted"
  /\ UNCHANGED <<master_password, domain, username, passno, buf_len, kdf, key,
                 password>>
  /\ UNCHANGED <<pvars, evars, rvars>>

\* if (salt == nullptr) return -1
DeriveMallocFails ==
  /\ dpc = "start" /\ CallsDerive
  /\ dpc' = "failed"
  /\ UNCHANGED <<master_password, domain, username, passno, buf_len, salt, kdf,
                 key, password>>
  /\ UNCHANGED <<pvars, evars, rvars>>

\* crypto_scrypt is a function of its arguments: m is a call that returned 0
\* with the arguments of the call that is about to be made.
SameCall(m) ==
  /\ m.called /\ Len(m.out) = m.buflen
  /\ m.passwd = master_password /\ m.passwdlen = Len(master_password)
  /\ m.salt = SubSeq(salt, 1, salt_len) /\ m.saltlen = salt_len
  /\ m.buflen = buf_len

\* crypto_scrypt(master_password, master_password_len, salt, salt_len, ...,
\* buf, buf_len) returns 0 with buf_len bytes in buf; free(salt)
DeriveCall ==
  /\ dpc = "salted"
  /\ \E out \in KeyBytes(buf_len) :
       /\ SameCall(memo) => out = memo.out
       /\ kdf' = [called |-> TRUE, passwd |-> master_password,
                  passwdlen |-> Len(master_password),
                  salt |-> SubSeq(salt, 1, salt_len), saltlen |-> salt_len,
                  buflen |-> buf_len, out |-> out]
       /\ key' = out
  /\ salt' = << >>
  /\ dpc' = "derived"
  /\ UNCHANGED <<master_password, domain, username, passno, buf_len, password>>
  /\ UNCHANGED <<pvars, evars, rvars>>

\* crypto_scrypt returns an error; free(salt); return ret
DeriveCallFails ==
  /\ dpc = "salted"
  /\ kdf' = [called |-> TRUE, passwd |-> master_password,
             passwdlen |-> Len(master_password),
             salt |-> SubSeq(salt, 1, salt_len), saltlen |-> salt_len,
             buflen |-> buf_len, out |-> << >>]
  /\ salt' = << >>
  /\ dpc' = "failed"
  /\ UNCHANGED <<master_password, domain, username, passno, buf_len, key,
                 password>>
  /\ UNCHANGED <<pvars, evars, rvars>>

\* to_chars(buf, buf_len, res, rlen) with (int)clen != 0; the buffer of the
\* caller has room for the terminator.
ToChars ==
  /\ dpc = "derived" /\ rlen # 0
  /\ key' = to_chars(key, buf_len, res.bytes, rlen)
  /\ password' = [defined |-> TRUE,
                  text |-> CStrFrom(to_chars(key, buf_len, res.bytes, rlen), 1)]
  /\ dpc' = "mapped"
  /\ UNCHANGED <<master_password, domain, username, passno, buf_len, salt, kdf>>
  /\ UNCHANGED <<pvars, evars, rvars>>

\* to_chars(buf, buf_len, res, rlen) with (int)clen == 0: *bytes % 0 is
\* undefined; the call traps, or leaves any bytes in the buffer.
ToCharsUndefined ==
  /\ dpc = "derived" /\ rlen = 0 /\ buf_len > 0
  /\ \/ /\ dpc' = "trapped"
        /\ UNCHANGED <<key, password>>
     \/ \E g \in { Ord("U"), NUL } :
          /\ key' = Store([i \in 1..Len(key) |-> g], buf_len + 1, NUL)
          /\ password' = [defined |-> TRUE,
                          text |-> CStrFrom(Append([i \in 1..Len(key) |-> g],
                                                   NUL), 1)]
          /\ dpc' = "mapped"
  /\ UNCHANGED <<master_password, domain, username, passno, buf_len, salt, kdf>>
  /\ UNCHANGED <<pvars, evars, rvars>>

\* The accounts the pipeline is run on: the fields of a record, a requested
\* length of at most MaxLength, and one of these character specifications.
MaxLength == 2
FieldStrings ==
  { << >>, Lit(<<"a">>), Lit(<<"b">>), Lit(<<"a", "b">>), Lit(<<"a", "a">>) }
PipelineSpecs ==
  { Lit(<<"a", "-", "c">>), Lit(<<"c", "-", "a">>), Lit(<<"a", "b">>),
    Lit(<<"-", "a">>), Lit(<<"a", " ">>), Digit,
    GraphLiteral \o Lit(<<"a">>), NullSpec }

\* One account is taken through enumerate_charset, derive_password and
\* to_chars.
PipelineInit ==
  /\ spec0 \in PipelineSpecs
  /\ spec = << >> /\ sp = 0
  /\ chars = << >> /\ result = NULL /\ l = NUL /\ op = 0
  /\ ret = 0 /\ errno = "none" /\ res = NoAlphabet /\ rlen = 0
  /\ copy = NoCopy
  /\ epc = "start"
  /\ master_password = Lit(<<"m">>)
  /\ domain \in FieldStrings
  /\ username \in FieldStrings
  /\ passno \in FieldStrings
  /\ buf_len \in 1..MaxLength
  /\ dpc = "start"
  /\ DeriveUnset
  /\ ParseIdle
  /\ OneRun

PipelineNext ==
  \/ EnumNullArgument
  \/ EnumResolve
  \/ ScanSpace
  \/ ScanDash
  \/ ScanLeft
  \/ ScanOperator
  \/ ScanRangePush
  \/ ScanRangeEnd
  \/ ScanLiteral
  \/ EnumOverflow
  \/ EnumMallocFails
  \/ EnumCopy
  \/ DeriveSalt
  \/ DeriveMallocFails
  \/ DeriveCall
  \/ DeriveCallFails
  \/ ToChars
  \/ ToCharsUndefined

SpecPipeline == PipelineInit /\ [][PipelineNext]_vars

\* The derivation has come to its end: a password, a trap, or a failed call.
RunEnded ==
  \/ dpc \in { "mapped", "trapped", "failed" }
  \/ (dpc = "start" /\ epc = "returned" /\ ret # 0)

\* The same account is derived a second time, in the same process: the
\* locals of the three functions are set up again, and crypto_scrypt is the
\* function it was.
RunAgain ==
  /\ run = 1 /\ RunEnded
  /\ run' = 2
  /\ first' = [done |-> (dpc = "mapped"), password |-> password]
  /\ memo' = kdf
  /\ spec' = << >> /\ sp' = 0
  /\ chars' = << >> /\ result' = NULL /\ l' = NUL /\ op' = 0
  /\ ret' = 0 /\ errno' = "none" /\ res' = NoAlphabet /\ rlen' = 0
  /\ copy' = NoCopy
  /\ epc' = "start"
  /\ salt' = << >> /\ kdf' = NoCall /\ key' = << >> /\ password' = NoPassword
  /\ dpc' = "start"
  /\ UNCHANGED <<spec0, master_password, domain, username, passno, buf_len>>
  /\ UNCHANGED pvars

TwoRunsNext ==
  \/ EnumNullArgument
  \/ EnumResolve
  \/ ScanSpace
  \/ ScanDash
  \/ ScanLeft
  \/ ScanOperator
  \/ ScanRangePush
  \/ ScanRangeEnd
  \/ ScanLiteral
  \/ EnumOverflow
  \/ EnumMallocFails
  \/ EnumCopy
  \/ DeriveSalt
  \/ DeriveMallocFails
  \/ DeriveCall
  \/ DeriveCallFails
  \/ ToChars
  \/ ToCharsUndefined
  \/ RunAgain

SpecTwoRuns == PipelineInit /\ [][TwoRunsNext]_vars

(***************************************************************************)
(* Statements about derive_password and to_chars                           *)
(***************************************************************************)
Mapped == dpc = "mapped" \/ dpc = "trapped"

\* The password is buf_len characters, each the alphabet character selected
\* by the raw byte at its position.
IsTheMapping ==
  /\ password.defined
  /\ Len(password.text) = buf_len
  /\ \A i \in 1..buf_len :
       /\ rlen # 0
       /\ password.text[i] = res.bytes[(kdf.out[i] % rlen) + 1]
       /\ \E j \in 1..Len(res.bytes) : password.text[i] = res.bytes[j]

\* C6: for every raw byte sequence of length n and every compiled alphabet,
\* to_chars leaves a string of exactly n characters whose i-th character is
\* alphabet[rawBytes[i] mod len(alphabet)], so the password has the requested
\* length and all of its characters are elements of the alphabet.
C6_ToCharsMapsOntoAlphabet == Mapped => IsTheMapping

\* The statement of C6 for the alphabets that have at least one character.
ToCharsOnNonEmptyAlphabet == (Mapped /\ rlen # 0) => IsTheMapping

\* to_chars has run on a non-empty alphabet.
ToCharsOnNonEmptyAlphabetWitness ==
  /\ dpc = "mapped" /\ spec0 = Lit(<<"a", "-", "c">>)
  /\ kdf.out = << 255, 1 >>
  /\ password.text = Lit(<<"a", "b">>)

\* C10: the salt handed to crypto_scrypt is the bytes of domain, then
\* username, then passno, with no separator and no terminator, and the salt
\* length handed over is the sum of the three string lengths.
C10_SaltIsConcatenation ==
  kdf.called =>
    /\ kdf.salt = domain \o username \o passno
    /\ kdf.saltlen = Len(domain) + Len(username) + Len(passno)
    /\ Len(kdf.salt) = kdf.saltlen
    /\ \A i \in 1..Len(kdf.salt) : kdf.salt[i] # NUL

\* crypto_scrypt has been called for domain "ab", username "a", iteration "b".
C10_Witness ==
  /\ kdf.called
  /\ domain = Lit(<<"a", "b">>) /\ username = Lit(<<"a">>)
  /\ passno = Lit(<<"b">>)
  /\ kdf.salt = Lit(<<"a", "b", "a", "b">>)
  /\ kdf.saltlen = 4

\* The salt_len bytes derive_password hands to crypto_scrypt for the strings
\* d, u and p.
SaltOf(d, u, p) ==
  SubSeq(build_salt([i \in 1..(Len(d) + Len(u) + Len(p) + 1) |-> NUL], d, u, p),
         1, Len(d) + Len(u) + Len(p))

\* C11: the salt of (domain, username, iteration) differs from the salt of
\* the same three values with any two of them swapped, whenever the two
\* swapped values differ.
C11_SwapChangesSalt ==
  kdf.called =>
    /\ (domain # username => kdf.salt # SaltOf(username, domain, passno))
    /\ (domain # passno => kdf.salt # SaltOf(passno, username, domain))
    /\ (username # passno => kdf.salt # SaltOf(domain, passno, username))

\* The salts of the swapped fields differ when the swapped values are not
\* powers of one common string.
SwapOfBothLettersChangesSalt ==
  (kdf.called /\ domain = Lit(<<"a", "b">>) /\ username = Lit(<<"b">>)) =>
    kdf.salt # SaltOf(username, domain, passno)

\* Both derivations of the account have ended with a password.
BothMapped == run = 2 /\ first.done /\ dpc = "mapped"

\* C15: two derivations with the same master password, domain, username,
\* iteration, charset specification and length, crypto_scrypt being a
\* function of its arguments, end with the same password.
C15_Deterministic == BothMapped => password = first.password

\* The statement of C15 for the accounts whose alphabet has a character.
DeterministicOnNonEmptyAlphabet ==
  (BothMapped /\ rlen # 0) => password = first.password

\* Two derivations on a non-empty alphabet have ended with one password.
DeterministicOnNonEmptyAlphabetWitness ==
  /\ BothMapped /\ spec0 = Lit(<<"a", "-", "c">>) /\ buf_len = 2
  /\ password.text = Lit(<<"a", "c">>)
  /\ first.password.text = Lit(<<"a", "c">>)

(***************************************************************************)
(* Statements about enumerate_charset                                      *)
(***************************************************************************)
\* The characters from a to b, ascending, both included, each once.
Range(a, b) ==
  IF Ord(b) < Ord(a) THEN << >>
  ELSE [i \in 1..(Ord(b) - Ord(a) + 1) |-> Ord(a) + i - 1]

Returned == epc = "returned"

\* The number of '-' that follow the first character of s.
DashesAfterFirst(s) ==
  CHOOSE k \in 0..(Len(s) - 1) :
    /\ \A i \in 2..(k + 1) : s[i] = MINUS
    /\ (k + 2 > Len(s) \/ s[k + 2] # MINUS)

RECURSIVE Expansion(_)
\* What a range expression without white space expands to, left to right: a
\* '-' with no left endpoint is literal; x, one or more '-', y is the range
\* from x to y; x, one or more '-', end of input is x and '-'; any other
\* character is literal.
Expansion(s) ==
  IF s = << >> THEN << >>
  ELSE IF s[1] = MINUS THEN << MINUS >> \o Expansion(Tail(s))
  ELSE LET k == DashesAfterFirst(s)
       IN  IF k = 0 THEN << s[1] >> \o Expansion(Tail(s))
           ELSE IF Len(s) = k + 1 THEN << s[1], MINUS >>
           ELSE (IF s[k + 2] < s[1] THEN << >>
                 ELSE [i \in 1..(s[k + 2] - s[1] + 1) |-> s[1] + i - 1])
                \o Expansion(SubSeq(s, k + 3, Len(s)))

WithoutSpace(s) == SelectSeq(s, LAMBDA ch : ~isspace(ch))

\* The alias table: each alias, the range expression it stands for, and the
\* alphabet of that expression.
AliasTable ==
  { [alias |-> Alnum, literal |-> Lit(<<"a","-","z","A","-","Z","0","-","9">>),
     alphabet |-> Range("a", "z") \o Range("A", "Z") \o Range("0", "9")],
    [alias |-> Alpha, literal |-> Lit(<<"a","-","z","A","-","Z">>),
     alphabet |-> Range("a", "z") \o Range("A", "Z")],
    [alias |-> Digit, literal |-> Lit(<<"0","-","9">>),
     alphabet |-> Range("0", "9")],
    [alias |-> Lower, literal |-> Lit(<<"a","-","z">>),
     alphabet |-> Range("a", "z")],
    [alias |-> Punct,
     literal |-> Lit(<<"!","-","/",":","-","@","[","-","backtick","{","-","~">>),
     alphabet |-> Range("!", "/") \o Range(":", "@") \o Range("[", "backtick")
                    \o Range("{", "~")],
    [alias |-> Upper, literal |-> Lit(<<"A","-","Z">>),
     alphabet |-> Range("A", "Z")],
    [alias |-> Word, literal |-> Lit(<<"A","-","Z","a","-","z","0","-","9","_">>),
     alphabet |-> Range("A", "Z") \o Range("a", "z") \o Range("0", "9")
                    \o Lit(<<"_">>)],
    [alias |-> Xdigit, literal |-> Lit(<<"A","-","F","a","-","f","0","-","9">>),
     alphabet |-> Range("A", "F") \o Range("a", "f") \o Range("0", "9")] }

GraphForms == { Empty, Star, Graph }

\* The range expression a spec stands for, aliases resolved, white space removed.
ExpressionOf(s) ==
  IF s \in GraphForms THEN Lit(<<"!", "-", "~">>)
  ELSE IF \E e \in AliasTable : e.alias = s
       THEN (CHOOSE e \in AliasTable : e.alias = s).literal
       ELSE WithoutSpace(s)

ExpansionOf(s) == Expansion(ExpressionOf(s))

\* C7: no more than the 95 bytes of chars are ever written, and a call for a
\* spec that expands to more than 95 entries returns -1 with EINVAL and hands
\* back no alphabet, wherever the buffer ran full.
C7_OverflowIsAnError ==
  /\ Len(chars) <= CHARS_SIZE
  /\ (Returned /\ spec0 # NullSpec /\ Len(ExpansionOf(spec0)) > CHARS_SIZE)
     => /\ ret = -1 /\ errno = "EINVAL"
        /\ res = NoAlphabet
        /\ copy = NoCopy

\* The second range of "!-~!-~" ran past the buffer and the call failed.
C7_Witness ==
  /\ Returned /\ spec0 = Lit(<<"!", "-", "~", "!", "-", "~">>)
  /\ Len(chars) = CHARS_SIZE
  /\ ret = -1 /\ res = NoAlphabet

\* C8: a call for an alias and a call for the range expression it maps to
\* never fail for lack of room, and when they return 0 they hand back one and
\* the same alphabet, character for character: the one of the table.
C8_AliasEquivalence ==
  \A e \in AliasTable :
    (Returned /\ spec0 \in { e.alias, e.literal })
    => /\ errno # "EINVAL"
       /\ ret = 0 => (res.set /\ res.bytes = e.alphabet /\ rlen = Len(e.alphabet))

C8_Witness ==
  /\ Returned /\ spec0 = Digit /\ ret = 0
  /\ res.bytes = Lit(<<"0", "1", "2", "3", "4", "5", "6", "7", "8", "9">>)

\* C9: a call for "", "*" or ":graph:" never fails for lack of room: the 94
\* characters and the terminator fit chars. When it returns 0 the alphabet is
\* the characters 0x21 to 0x7E ascending, each once.
C9_GraphIsPrintableAscii ==
  spec0 \in GraphForms
  => /\ Returned => errno # "EINVAL"
     /\ (epc = "scan" /\ sp > Len(spec)) => Flushed.result # NULL
     /\ (Returned /\ ret = 0)
        => /\ res.set /\ rlen = 94 /\ Len(res.bytes) = 94
           /\ \A i \in 1..94 : res.bytes[i] = 32 + i

C9_Witness ==
  /\ Returned /\ spec0 = Star /\ ret = 0
  /\ res.bytes = Range("!", "~")
  /\ Len(chars) = CHARS_SIZE

\* A call that returns 0 hands back the expansion of its spec.
ReturnsTheExpansion ==
  (Returned /\ ret = 0) => res.bytes = ExpansionOf(spec0)

HasSpace(s) == \E i \in 1..Len(s) : isspace(s[i])

RECURSIVE PairwiseExpansion(_)
\* The expansion in which a range is a character, one '-' and the character
\* right behind it, whatever that character is: a '-' with nothing pending is
\* literal, x-y is the range from x to y (nothing when y is below x), x- at
\* the end of input is x and '-', any other character is literal.
PairwiseExpansion(s) ==
  IF s = << >> THEN << >>
  ELSE IF s[1] = MINUS THEN << MINUS >> \o PairwiseExpansion(Tail(s))
  ELSE IF Len(s) >= 3 /\ s[2] = MINUS
       THEN (IF s[3] < s[1] THEN << >>
             ELSE [i \in 1..(s[3] - s[1] + 1) |-> s[1] + i - 1])
            \o PairwiseExpansion(SubSeq(s, 4, Len(s)))
  ELSE IF Len(s) = 2 /\ s[2] = MINUS THEN << s[1], MINUS >>
  ELSE << s[1] >> \o PairwiseExpansion(Tail(s))

\* A call has returned for a range expression: no null pointer, no alias, no
\* white space.
ReturnedForExpression ==
  /\ Returned /\ spec0 # NullSpec
  /\ spec0 \notin GraphForms /\ spec0 \notin Aliases
  /\ ~HasSpace(spec0)

\* C16 as stated: the alphabet of a range expression that fits the buffer is
\* the concatenation, left to right, of each x-y expanded to the characters
\* from x to y, each character outside a range, each '-' with no left
\* endpoint pending, and a trailing '-' behind its left character, nothing
\* deduplicated.
C16_PairwiseExpansion ==
  ReturnedForExpression
    => /\ Len(PairwiseExpansion(spec0)) < CHARS_SIZE => errno # "EINVAL"
       /\ ret = 0 => res.bytes = PairwiseExpansion(spec0)

\* C16 with the range operator being one or more '-' behind a left endpoint:
\* the alphabet is the concatenation, left to right, of each x, '-'..., y
\* expanded to the characters from x to y (none when y is below x), each
\* other character, each '-' with no left endpoint pending, and a trailing
\* run of '-' as one '-' behind its left character, nothing deduplicated.
C16_ExpansionWithDashRuns ==
  ReturnedForExpression
    => /\ Len(Expansion(spec0)) < CHARS_SIZE => errno # "EINVAL"
       /\ ret = 0 => (res.bytes = Expansion(spec0) /\ rlen = Len(Expansion(spec0)))

\* a--c has been expanded to the range from a to c.
C16_Witness ==
  /\ Returned /\ ret = 0
  /\ spec0 = Lit(<<"a", "-", "-", "c">>)
  /\ res.bytes = Lit(<<"a", "b", "c">>)

\* C18: whenever enumerate_charset returns success, the alphabet it hands
\* back has at least one character, so to_chars never takes a remainder by
\* zero; also for a range whose left endpoint is above its right one.
C18_AlphabetNotEmpty ==
  (Returned /\ ret = 0) => (rlen >= 1 /\ Len(res.bytes) >= 1)

\* A successful call hands back no character only when the expansion of its
\* spec is empty, and then it does.
EmptyAlphabetIsEmptyExpansion ==
  (Returned /\ ret = 0) => (rlen = 0 <=> ExpansionOf(spec0) = << >>)

\* C19: when enumerate_charset succeeds, the bytes it copies into the buffer
\* it hands back, the characters and the terminator, are no more than the
\* bytes it allocated for that buffer.
C19_CopyWithinAllocation ==
  (Returned /\ ret = 0) => copy.copied <= copy.allocated

\* Every successful call copies one byte more than it allocated.
CopiesOnePastAllocation ==
  (Returned /\ ret = 0) => copy.copied = copy.allocated + 1

\* The call always takes its next step: the program is one thread that runs
\* until enumerate_charset returns.
FairCharset == SpecCharset /\ WF_vars(EnumNext)

\* C14: a call for a spec with white space in it terminates, and its result
\* is the result for the spec with the white space removed: the white space
\* is not emitted and is no range endpoint.
C14_WhitespaceIsSkipped ==
  (spec0 # NullSpec /\ HasSpace(spec0))
    => <>(Returned /\ (ret = 0 => res.bytes = Expansion(WithoutSpace(spec0))))

\* A call for a spec with white space in it never returns: the loop stays at
\* the first white space character.
WhitespaceNeverReturns ==
  (spec0 # NullSpec /\ HasSpace(spec0)) => ~Returned

\* A call for a spec without white space returns.
WithoutWhitespaceReturns ==
  (spec0 = NullSpec \/ ~HasSpace(spec0)) => <>Returned

(***************************************************************************)
(* Reading the original buffer, for the statements about the parser        *)
(***************************************************************************)
\* Position of the first sep in s, or 0.
FirstOf(s, sep) ==
  IF \E i \in 1..Len(s) : s[i] = sep
  THEN CHOOSE i \in 1..Len(s) : s[i] = sep /\ \A j \in 1..(i - 1) : s[j] # sep
  ELSE 0

RECURSIVE Split(_, _)
\* The pieces of s between the occurrences of sep (one more than there are seps).
Split(s, sep) ==
  LET i == FirstOf(s, sep)
  IN  IF i = 0 THEN << s >>
      ELSE << SubSeq(s, 1, i - 1) >> \o Split(SubSeq(s, i + 1, Len(s)), sep)

Pieces == Split(buf0, NEWLINE)
\* The lines of buf0 that end with a newline.
TerminatedLines == SubSeq(Pieces, 1, Len(Pieces) - 1)
\* The text after the last newline (empty when buf0 ends with a newline).
Unterminated == Pieces[Len(Pieces)]
\* All lines: the terminated ones, then the unterminated text if there is any.
AllLines == IF Unterminated = << >> THEN TerminatedLines ELSE Pieces

Fields(ln) == Split(ln, COMMA)
Commas(ln) == Len(Fields(ln)) - 1

\* The text of ln after its fourth comma.
AfterFourthComma(ln) ==
  LET f == Fields(ln)
  IN  SubSeq(ln, Len(f[1]) + Len(f[2]) + Len(f[3]) + Len(f[4]) + 5, Len(ln))

\* The text of ln between its third comma and its last comma.
BetweenThirdAndLast(ln) ==
  LET f == Fields(ln)
  IN  SubSeq(ln, Len(f[1]) + Len(f[2]) + Len(f[3]) + 4,
             Len(ln) - Len(f[Len(f)]) - 1)

RECURSIVE DecimalValue(_)
DecimalValue(t) ==
  IF t = << >> THEN 0
  ELSE DecimalValue(SubSeq(t, 1, Len(t) - 1)) * 10 + (t[Len(t)] - Ord("0"))

\* t is a positive decimal integer: digits only, at least one, value above 0.
PositiveDecimal(t) ==
  /\ Len(t) > 0
  /\ \A i \in 1..Len(t) : isdigit(t[i])
  /\ DecimalValue(t) > 0

\* ln has the form d,u,i,L,rest with L a positive decimal integer.
LengthThenSpecForm(ln) == Commas(ln) >= 4 /\ PositiveDecimal(Fields(ln)[4])

\* ln has the form d,u,i,spec,L with L, the last token, a positive decimal integer.
SpecThenLengthForm(ln) ==
  Commas(ln) >= 4 /\ PositiveDecimal(Fields(ln)[Len(Fields(ln))])

\* The record r, its fields read as C strings of the buffer b.
StringsIn(b, r) ==
  [domain     |-> IF r.domain = NULL THEN "null" ELSE CStrFrom(b, r.domain),
   username   |-> IF r.username = NULL THEN "null" ELSE CStrFrom(b, r.username),
   iteration  |-> IF r.iteration = NULL THEN "null" ELSE CStrFrom(b, r.iteration),
   characters |-> IF r.characters = NULL THEN "null" ELSE CStrFrom(b, r.characters),
   length     |-> r.length]

Strings(r) == StringsIn(buf, r)

Records == [k \in 1..list.size |-> Strings(list.accounts[k])]

FatalDiags == { k \in 1..Len(diags) : diags[k].kind = "length" }
SkipDiags  == { k \in 1..Len(diags) : diags[k].kind = "skip" }

(***************************************************************************)
(* Statements about parse_accounts                                         *)
(***************************************************************************)
TheOnlyLine == TerminatedLines[1]
LastToken(ln) == Fields(ln)[Len(Fields(ln))]

\* C1, as stated: a buffer of one line d,u,i,spec,L (such as
\* example.com,alice,1,:alnum:,12) is loaded without abort and gives one record
\* whose charsetSpec is the text between the third and the last comma and whose
\* length is the trailing integer L.
C1_SpecThenLength ==
  (/\ ppc = "returned"
   /\ Len(TerminatedLines) = 1 /\ Unterminated = << >>
   /\ SpecThenLengthForm(TheOnlyLine))
  => /\ FatalDiags = {}
     /\ list.size = 1
     /\ Records[1].characters = BetweenThirdAndLast(TheOnlyLine)
     /\ Records[1].length = DecimalValue(LastToken(TheOnlyLine))

\* C1, amended: the order of the last two fields is length, then characters. A
\* line d,u,i,L,rest with L a positive decimal integer (such as
\* example.com,alice,1,12,:alnum:) never aborts the load, and as first line of a
\* load that is not aborted it gives the first record, with charsetSpec the text
\* after the fourth comma and length L; example.com,alice,1,:alnum:,12 aborts
\* the load, :alnum: being read as the length.
C1_LengthThenSpec ==
  /\ \A k \in FatalDiags : ~LengthThenSpecForm(Pieces[diags[k].at])
  /\ (/\ ppc = "returned" /\ FatalDiags = {}
      /\ Len(TerminatedLines) >= 1 /\ LengthThenSpecForm(TheOnlyLine))
     => /\ list.size >= 1
        /\ Records[1].characters = AfterFourthComma(TheOnlyLine)
        /\ Records[1].length = DecimalValue(Fields(TheOnlyLine)[4])
  /\ (ppc = "returned" /\ buf0 = ExampleSpecThenLength)
     => list.size = 0 /\ FatalDiags # {}

C1_Witness ==
  /\ ppc = "returned" /\ buf0 = ExampleLengthThenSpec
  /\ list.size = 1
  /\ Records[1].characters = Lit(<<":", "a", "l", "n", "u", "m", ":">>)
  /\ Records[1].length = 12

\* The line of buf0 the scan pointer is in, while it scans.
ScannedLine == Pieces[lineno]
Scanning == ppc = "loop" /\ str # end
InTerminatedLine == Scanning /\ lineno < Len(Pieces)

\* C2: while a newline-terminated line d,u,i,L,rest with L a positive decimal
\* integer is scanned, the list is changed by the step at its newline alone,
\* and that step appends one record with domain d, username u, iteration i,
\* length L and charsetSpec rest, the whole text after the fourth comma with
\* its commas.
C2_LineAppendsItsRecord ==
  [][ (InTerminatedLine /\ LengthThenSpecForm(ScannedLine))
      => IF buf[str] = NEWLINE
         THEN /\ list'.size = list.size + 1
              /\ SubSeq(list'.accounts, 1, list.size) = list.accounts
              /\ StringsIn(buf', list'.accounts[list'.size]) =
                   [domain     |-> Fields(ScannedLine)[1],
                    username   |-> Fields(ScannedLine)[2],
                    iteration  |-> Fields(ScannedLine)[3],
                    characters |-> AfterFourthComma(ScannedLine),
                    length     |-> DecimalValue(Fields(ScannedLine)[4])]
         ELSE list' = list /\ ppc' = "loop" ]_vars

C2_Witness ==
  /\ ppc = "returned" /\ list.size = 2
  /\ Records[2].characters = Lit(<<"a", ",", "c">>)
  /\ Records[2].length = 12
  /\ Records[2].domain = << >>

\* A line is well-formed when it has a domain and a username field.
WellFormed(ln) == Commas(ln) >= 2
NoMalformedLength ==
  \A k \in 1..Len(AllLines) :
    Commas(AllLines[k]) >= 4 => PositiveDecimal(Fields(AllLines[k])[4])
WellFormedLines == SelectSeq(AllLines, WellFormed)

\* The list holds the well-formed lines of buf0 in their order, and there is
\* one diagnostic for each newline-terminated line that is not well-formed.
PartialLoad ==
  /\ Len(diags) =
       Cardinality({ k \in 1..Len(TerminatedLines) : ~WellFormed(TerminatedLines[k]) })
  /\ \A k \in 1..Len(diags) : diags[k].kind = "skip"
  /\ list.size = Len(WellFormedLines)
  /\ \A k \in 1..list.size :
       /\ Records[k].domain = Fields(WellFormedLines[k])[1]
       /\ Records[k].username = Fields(WellFormedLines[k])[2]

\* C3: for a database in which no line has a malformed length, each line that
\* reaches its newline without domain or username gives one diagnostic and no
\* record, and the returned list holds exactly the well-formed lines, in order.
C3_PartialLoad == (ppc = "returned" /\ NoMalformedLength) => PartialLoad

\* The same for the databases whose last line ends with a newline.
PartialLoadOfTerminatedDatabase ==
  (ppc = "returned" /\ NoMalformedLength /\ Unterminated = << >>) => PartialLoad

EmptyList == [accounts |-> << >>, size |-> 0, capacity |-> 0]

\* The lines whose length token is reached: the first with four commas whose
\* token satisfies Bad.
FirstLineWith(Bad(_)) ==
  CHOOSE k \in 1..Len(AllLines) :
    /\ Commas(AllLines[k]) >= 4 /\ Bad(Fields(AllLines[k])[4])
    /\ \A j \in 1..(k - 1) : ~(Commas(AllLines[j]) >= 4 /\ Bad(Fields(AllLines[j])[4]))
SomeLineWith(Bad(_)) ==
  \E k \in 1..Len(AllLines) : Commas(AllLines[k]) >= 4 /\ Bad(Fields(AllLines[k])[4])

\* The load was aborted at line k: the list is empty, with size 0 and capacity
\* 0, the last diagnostic is the fatal one, the scan stopped in line k and
\* nothing after the fourth comma of line k was touched.
AbortedAt(k) ==
  /\ list = EmptyList
  /\ Len(diags) >= 1 /\ diags[Len(diags)].kind = "length"
  /\ lineno = k
  /\ buf0[str] = COMMA
  /\ SubSeq(buf, str + 1, Len(buf)) = SubSeq(buf0, str + 1, Len(buf0))

NotPositiveDecimal(t) == ~PositiveDecimal(t)

RECURSIVE DigitRun(_)
DigitRun(t) ==
  IF t = << >> \/ ~isdigit(t[1]) THEN << >> ELSE << t[1] >> \o DigitRun(Tail(t))

\* The token reads as zero or less: it starts with a minus sign, or the digits
\* it starts with (after an optional plus sign) are none or have the value 0.
ReadsAsNotPositive(t) ==
  \/ t # << >> /\ t[1] = MINUS
  \/ t # << >> /\ t[1] = PLUS /\ DecimalValue(DigitRun(Tail(t))) = 0
  \/ (t = << >> \/ t[1] # PLUS) /\ DecimalValue(DigitRun(t)) = 0

C5_RecordInvariant ==
  \A k \in 1..list.size :
    /\ list.accounts[k].domain # NULL /\ Records[k].domain # << >>
    /\ list.accounts[k].username # NULL /\ Records[k].username # << >>
    /\ list.accounts[k].length > 0

\* C12: every diagnostic of parse_accounts, the one for a skipped entry and
\* the one for a fatal length, names the 1-based number of the line of the
\* buffer that caused it.
C12_DiagnosticNamesTheLine ==
  \A k \in 1..Len(diags) : diags[k].line = diags[k].at

\* The number in a diagnostic is one more than the number of records
\* appended before it, which is never more than the number of the line.
DiagnosticCountsRecords ==
  \A k \in 1..Len(diags) : diags[k].line <= diags[k].at

\* The record the line ln = d,u,i,L,rest describes.
RecordOf(ln) ==
  [domain     |-> Fields(ln)[1],
   username   |-> Fields(ln)[2],
   iteration  |-> Fields(ln)[3],
   characters |-> AfterFourthComma(ln),
   length     |-> DecimalValue(Fields(ln)[4])]

\* parse_accounts has returned without a fatal length, from a buffer whose
\* last line has no newline and has the form d,u,i,L,rest.
ReturnedWithUnterminatedRecord ==
  /\ ppc = "returned" /\ FatalDiags = {}
  /\ Unterminated # << >> /\ LengthThenSpecForm(Unterminated)

\* The last line has been appended behind the records of the lines before it.
FinalLineAppended ==
  /\ list.size = Len(SelectSeq(TerminatedLines, WellFormed)) + 1
  /\ Records[list.size] = RecordOf(Unterminated)

\* C13: a well-formed final line d,u,i,L,rest without a trailing newline is
\* appended as the last record of the list, with the domain, username,
\* iteration, length and charsetSpec it would have with the newline.
C13_UnterminatedFinalLine == ReturnedWithUnterminatedRecord => FinalLineAppended

\* The statement of C13 for the final lines whose charsetSpec is not empty,
\* the byte behind the buffer taken to be a terminator.
UnterminatedFinalLineWithSpec ==
  (ReturnedWithUnterminatedRecord /\ AfterFourthComma(Unterminated) # << >>)
    => FinalLineAppended

\* The capacity parse_accounts asks new_account_list for.
InitialCapacity ==
  IF Len(buf0) < AVERAGE_DATABASE_ENTRY_SIZE THEN 1
  ELSE Len(buf0) \div AVERAGE_DATABASE_ENTRY_SIZE

\* The step creates the list, appends to it, frees it, or leaves it alone.
ListStep ==
  \/ /\ ppc = "start" /\ ppc' = "loop"
     /\ list'.size = 0
     /\ list'.capacity = InitialCapacity /\ list'.capacity >= 1
  \/ /\ ppc # "start"
     /\ list'.size = list.size + 1
     /\ list'.capacity =
          (IF list.size = list.capacity THEN 2 * list.capacity ELSE list.capacity)
     /\ list.size < list'.capacity
     /\ Len(list'.accounts) = list'.size
     /\ SubSeq(list'.accounts, 1, list.size) = list.accounts
  \/ /\ ppc # "start" /\ ppc' = "returned"
     /\ diags' # diags
     /\ list' = [accounts |-> << >>, size |-> 0, capacity |-> 0]
  \/ list' = list

\* C17: size <= capacity in every state from new_account_list through the
\* calls of push_account to a final free_account_list; the initial capacity
\* is at least 1, 1 for a buffer shorter than AVERAGE_DATABASE_ENTRY_SIZE and
\* the length divided by it otherwise; the capacity doubles exactly when an
\* append finds size = capacity; every append writes below the capacity.
C17_SizeWithinCapacity ==
  /\ [](list.size <= list.capacity)
  /\ [][ListStep]_vars

\* Two records were appended to a list created with capacity 1: the second
\* append doubled the capacity.
C17_Witness ==
  /\ ppc = "returned" /\ InitialCapacity = 1
  /\ list.size = 2 /\ list.capacity = 2

\* The lines of the buffer b that end with a newline.
TerminatedLinesOf(b) ==
  LET p == Split(b, NEWLINE) IN SubSeq(p, 1, Len(p) - 1)

\* The line has a length token that stops the load.
FatalLine(ln) == Commas(ln) >= 4 /\ atoi(Fields(ln)[4]) <= 0

\* The record a newline-terminated line with domain and username is appended
\* as: the fields before the third comma, the length token behind it, and the
\* rest of the line as characters.
TerminatedRecordOf(ln) ==
  LET f == Fields(ln)
  IN  [domain     |-> f[1],
       username   |-> f[2],
       iteration  |-> IF Len(f) >= 4 THEN f[3] ELSE "null",
       characters |-> IF Len(f) >= 5 THEN AfterFourthComma(ln) ELSE f[Len(f)],
       length     |-> IF Len(f) >= 5 THEN atoi(f[4]) ELSE 0]

\* What parse_accounts returns for a buffer b in which every line ends with
\* a newline: whether the load was aborted, the records of the list, and the
\* lines that were dropped.
TerminatedOutcome(b) ==
  LET lines == TerminatedLinesOf(b)
      fatal == { k \in 1..Len(lines) : FatalLine(lines[k]) }
      stop  == IF fatal = {} THEN Len(lines) + 1
               ELSE CHOOSE k \in fatal : \A j \in fatal : k <= j
  IN  [aborted |-> fatal # {},
       records |-> IF fatal # {} THEN << >>
                   ELSE [k \in 1..Len(SelectSeq(lines, WellFormed)) |->
                           TerminatedRecordOf(SelectSeq(lines, WellFormed)[k])],
       dropped |-> { k \in 1..(stop - 1) : ~WellFormed(lines[k]) }]

\* What parse_accounts has returned: whether it aborted, the records of the
\* list, and the lines it dropped with a diagnostic.
Outcome ==
  [aborted |-> FatalDiags # {},
   records |-> Records,
   dropped |-> { diags[k].at : k \in SkipDiags }]

\* C20: for a buffer that does not end with a newline parse_accounts returns
\* what it returns for that buffer with one newline appended: the same
\* records in the same order, the same lines dropped, the same abort.
C20_NewlineMakesNoDifference ==
  (ppc = "returned" /\ Unterminated # << >>)
    => Outcome = TerminatedOutcome(buf0 \o << NEWLINE >>)

\* For a buffer whose last line ends with a newline parse_accounts returns
\* the outcome described above.
TerminatedDatabaseOutcome ==
  (ppc = "returned" /\ Unterminated = << >>) => Outcome = TerminatedOutcome(buf0)

\* The buffers that lack the final newline and are parsed as if they had it:
\* those whose last line has a domain and a username, no length token that
\* stops the load, and a last field that is not empty.
UnterminatedAsTerminated ==
  (/\ ppc = "returned" /\ Unterminated # << >>
   /\ WellFormed(Unterminated) /\ ~FatalLine(Unterminated)
   /\ Fields(Unterminated)[Len(Fields(Unterminated))] # << >>
   /\ (Commas(Unterminated) >= 4 => AfterFourthComma(Unterminated) # << >>))
    => Outcome = TerminatedOutcome(buf0 \o << NEWLINE >>)

====
